---------------------------- MODULE Spec2Model ----------------------------
(***************************************************************************)
(* A model of the Proteosurf conversation orchestrator:                    *)
(*   backend/proteosurf/agent.py  (ProteoAgent.chat, _call_claude, reset,  *)
(*                                 _execute_tool, TOOL_REGISTRY)           *)
(*   backend/proteosurf/app.py    (chat_ws, the WebSocket loop that owns   *)
(*                                 one ProteoAgent per connection)         *)
(*                                                                         *)
(* One connection and its agent are modelled in full.  The actions are    *)
(* the code between two suspension points (await / yield) of               *)
(* ProteoAgent.chat and of chat_ws; the completion service and the tool    *)
(* handlers are the environment and are chosen with \E.  Further           *)
(* specifications add to Spec a service that breaks its contract, a        *)
(* handler that hangs, handlers with results of other shapes, a client     *)
(* that goes away, a second connection, and calls of reset during a chat.  *)
(***************************************************************************)
EXTENDS Integers, Sequences, FiniteSets, TLC

(***************************************************************************)
(* Text.  A Python str is modelled as the run-length encoding of its       *)
(* characters: a sequence of <<c, n>> (n >= 1 copies of the character c),  *)
(* no two neighbouring runs with the same character.  The encoding is      *)
(* exact, so slicing, concatenation and comparison are those of the str.   *)
(***************************************************************************)
\* s1 + s2
Cat(a, b) ==
    IF a = << >> THEN b
    ELSE IF b = << >> THEN a
    ELSE IF a[Len(a)][1] = b[1][1]
         THEN SubSeq(a, 1, Len(a) - 1)
                 \o << <<b[1][1], a[Len(a)][2] + b[1][2]>> >>
                 \o Tail(b)
         ELSE a \o b

RECURSIVE LitFrom(_, _)
LitFrom(cs, k) ==
    IF k > Len(cs) THEN << >>
    ELSE Cat(<< <<cs[k], 1>> >>, LitFrom(cs, k + 1))

\* a str literal, from the tuple of its characters
Lit(cs) == LitFrom(cs, 1)

\* c * n
Rep(c, n) == IF n <= 0 THEN << >> ELSE << <<c, n>> >>

RECURSIVE StrLen(_)
\* len(s)
StrLen(s) == IF s = << >> THEN 0 ELSE s[1][2] + StrLen(Tail(s))

RECURSIVE Take(_, _)
\* s[:k], k >= 0
Take(s, k) ==
    IF k <= 0 \/ s = << >> THEN << >>
    ELSE IF s[1][2] <= k
         THEN << s[1] >> \o Take(Tail(s), k - s[1][2])
         ELSE << <<s[1][1], k>> >>

\* s.startswith(p)
StartsWith(s, p) == Take(s, StrLen(p)) = p

RECURSIVE Chars(_)
\* list(s): the characters of s, one by one
Chars(s) ==
    IF s = << >> THEN << >>
    ELSE [i \in 1..s[1][2] |-> s[1][1]] \o Chars(Tail(s))

RECURSIVE JoinFrom(_, _, _)
JoinFrom(sep, parts, k) ==
    IF k > Len(parts) THEN << >>
    ELSE IF k = Len(parts) THEN parts[k]
    ELSE Cat(Cat(parts[k], sep), JoinFrom(sep, parts, k + 1))

\* sep.join(parts)
Join(sep, parts) == JoinFrom(sep, parts, 1)

NL == Lit(<<"\n">>)


(***************************************************************************)
(* The tool registry and the dispatcher.                                   *)
(***************************************************************************)
SnapshotName == Lit(<<"s", "n", "a", "p", "s", "h", "o", "t">>)
NarrateName == Lit(<<"n", "a", "r", "r", "a", "t", "e", "_", "a", "n", "a", "l", "y", "s", "i", "s">>)
\* a name the model may ask for that is no key of TOOL_REGISTRY
LookupName == Lit(<<"l", "o", "o", "k", "u", "p">>)

\* The keys of TOOL_REGISTRY in registration (dict insertion) order; two of
\* the registry's entries stand for all of them.
TOOL_REGISTRY == <<SnapshotName, NarrateName>>

\* TOOL_REGISTRY[name]: the handler, the description and the input schema
\* registered under a name (of the schema, its type and the names of its
\* properties and of the required ones)
ToolSpec(name) ==
    IF name = SnapshotName
    THEN [fn |-> "chimerax_tools.take_snapshot",
          description |-> "Capture a screenshot of the current ChimeraX view.",
          input_schema |-> [type |-> "object",
                            properties |-> {"width", "height", "transparent"},
                            required |-> { }]]
    ELSE [fn |-> "voice.narrate_analysis",
          description |-> "Convert protein analysis text to spoken audio using ElevenLabs TTS. Returns base64 MP3 audio.",
          input_schema |-> [type |-> "object",
                            properties |-> {"text", "voice_id", "stability"},
                            required |-> {"text"}]]

\* the manifest in the reverse of the registration order
ToolDefinitionsReversed(registry) ==
    [i \in 1..Len(registry) |->
        [name |-> registry[Len(registry) + 1 - i],
         description |-> ToolSpec(registry[Len(registry) + 1 - i]).description,
         input_schema |-> ToolSpec(registry[Len(registry) + 1 - i]).input_schema]]

\* _tool_definitions(): one entry per item of TOOL_REGISTRY, in its order
ToolDefinitions(registry) ==
    [i \in 1..Len(registry) |->
        [name |-> registry[i],
         description |-> ToolSpec(registry[i]).description,
         input_schema |-> ToolSpec(registry[i]).input_schema]]

RegisteredNames == {TOOL_REGISTRY[i] : i \in 1..Len(TOOL_REGISTRY)}

ErrUnknownPrefix == Lit(<<"E", "r", "r", "o", "r", ":", " ", "U", "n", "k", "n", "o", "w", "n", " ", "t", "o", "o", "l", " ", "'">>)
ErrExecPrefix == Lit(<<"E", "r", "r", "o", "r", " ", "e", "x", "e", "c", "u", "t", "i", "n", "g", " ">>)
Quote == Lit(<<"'">>)
ColonSpace == Lit(<<":", " ">>)

\* What a handler spec["fn"](**arguments) does: it returns a str or raises an
\* Exception whose str() is msg.
Returns(r) == [kind |-> "return", text |-> r]
Raises(msg) == [kind |-> "raise", text |-> msg]

\* a dispatcher without the try/except around the handler call
ExecuteToolPropagates(name, outcome) ==
    IF name \notin RegisteredNames
    THEN Returns(Cat(Cat(ErrUnknownPrefix, name), Quote))
    ELSE outcome

\* a dispatcher without the `if spec is None` test: TOOL_REGISTRY[name]
\* raises KeyError
ExecuteToolKeyError(name, outcome) ==
    IF name \notin RegisteredNames
    THEN Raises(Cat(Cat(Quote, name), Quote))
    ELSE IF outcome.kind = "return"
         THEN Returns(outcome.text)
         ELSE Returns(Cat(Cat(ErrExecPrefix, name), Cat(ColonSpace, outcome.text)))

\* _execute_tool(name, arguments), given what the handler does when it is
\* called (it is called only for a registered name).  The result is what the
\* call does: Returns(str), or Raises(..) if an exception left the function.
ExecuteTool(name, outcome) ==
    IF name \notin RegisteredNames
    THEN Returns(Cat(Cat(ErrUnknownPrefix, name), Quote))
    ELSE IF outcome.kind = "return"
         THEN Returns(outcome.text)
         ELSE Returns(Cat(Cat(ErrExecPrefix, name), Cat(ColonSpace, outcome.text)))

(***************************************************************************)
(* json.loads, for the JSON texts the modelled handlers produce: objects,  *)
(* arrays, strings without escapes and integers, with optional white       *)
(* space.  A parsed value is [k, s, items]: k the Python type, s the text  *)
(* of a str or int, items the members of a list or the <<key, value>>      *)
(* pairs of a dict.  Anything else is a JSONDecodeError.                   *)
(***************************************************************************)
JsonWs == {" ", "\n", "\t", "\r"}
JsonDigits == {"0", "1", "2", "3", "4", "5", "6", "7", "8", "9"}

JsonFail == [ok |-> FALSE, v |-> << >>, next |-> 0]
JsonOk(v, next) == [ok |-> TRUE, v |-> v, next |-> next]
JsonVal(k, s, items) == [k |-> k, s |-> s, items |-> items]

RECURSIVE SkipWs(_, _)
SkipWs(cs, i) ==
    IF i <= Len(cs) /\ cs[i] \in JsonWs THEN SkipWs(cs, i + 1) ELSE i

RECURSIVE ScanString(_, _)
\* the index of the closing quote of a string whose text starts at i, or 0
ScanString(cs, i) ==
    IF i > Len(cs) THEN 0
    ELSE IF cs[i] = "\"" THEN i
    ELSE IF cs[i] = "\\" \/ cs[i] \in {"\n", "\t", "\r"} THEN 0
    ELSE ScanString(cs, i + 1)

RECURSIVE ScanDigits(_, _)
ScanDigits(cs, i) ==
    IF i <= Len(cs) /\ cs[i] \in JsonDigits THEN ScanDigits(cs, i + 1) ELSE i

ParseString(cs, i) ==
    LET j == ScanString(cs, i + 1)
    IN  IF j = 0 THEN JsonFail
        ELSE JsonOk(JsonVal("str", Lit(SubSeq(cs, i + 1, j - 1)), << >>), j + 1)

ParseNumber(cs, i) ==
    LET d == IF cs[i] = "-" THEN i + 1 ELSE i
        e == IF d <= Len(cs) /\ cs[d] = "0" THEN d + 1 ELSE ScanDigits(cs, d)
    IN  IF e = d THEN JsonFail
        ELSE JsonOk(JsonVal("int", Lit(SubSeq(cs, i, e - 1)), << >>), e)

RECURSIVE ParseValue(_, _)
RECURSIVE ParseMembers(_, _, _)
RECURSIVE ParseElements(_, _, _)

\* the members of an object from i on, after those in acc; i is at a key
ParseMembers(cs, i, acc) ==
    IF i > Len(cs) \/ cs[i] # "\"" THEN JsonFail
    ELSE LET key == ParseString(cs, i)
             c == IF key.ok THEN SkipWs(cs, key.next) ELSE 0
             val == IF key.ok /\ c <= Len(cs) /\ cs[c] = ":"
                    THEN ParseValue(cs, SkipWs(cs, c + 1))
                    ELSE JsonFail
             e == IF val.ok THEN SkipWs(cs, val.next) ELSE 0
             all == IF val.ok THEN Append(acc, <<key.v.s, val.v>>) ELSE acc
         IN  IF ~val.ok \/ e > Len(cs) THEN JsonFail
             ELSE IF cs[e] = "}" THEN JsonOk(JsonVal("dict", << >>, all), e + 1)
             ELSE IF cs[e] = "," THEN ParseMembers(cs, SkipWs(cs, e + 1), all)
             ELSE JsonFail

\* the elements of an array from i on, after those in acc
ParseElements(cs, i, acc) ==
    LET val == ParseValue(cs, i)
        e == IF val.ok THEN SkipWs(cs, val.next) ELSE 0
        all == IF val.ok THEN Append(acc, val.v) ELSE acc
    IN  IF ~val.ok \/ e > Len(cs) THEN JsonFail
        ELSE IF cs[e] = "]" THEN JsonOk(JsonVal("list", << >>, all), e + 1)
        ELSE IF cs[e] = "," THEN ParseElements(cs, SkipWs(cs, e + 1), all)
        ELSE JsonFail

ParseValue(cs, i) ==
    IF i > Len(cs) THEN JsonFail
    ELSE IF cs[i] = "\"" THEN ParseString(cs, i)
    ELSE IF cs[i] = "-" \/ cs[i] \in JsonDigits THEN ParseNumber(cs, i)
    ELSE IF cs[i] = "{"
         THEN LET j == SkipWs(cs, i + 1)
              IN  IF j <= Len(cs) /\ cs[j] = "}"
                  THEN JsonOk(JsonVal("dict", << >>, << >>), j + 1)
                  ELSE ParseMembers(cs, j, << >>)
    ELSE IF cs[i] = "["
         THEN LET j == SkipWs(cs, i + 1)
              IN  IF j <= Len(cs) /\ cs[j] = "]"
                  THEN JsonOk(JsonVal("list", << >>, << >>), j + 1)
                  ELSE ParseElements(cs, j, << >>)
    ELSE JsonFail

\* json.loads(s): ok is FALSE where it raises JSONDecodeError
JsonLoads(s) ==
    LET cs == Chars(s)
        r == ParseValue(cs, SkipWs(cs, 1))
    IN  IF r.ok /\ SkipWs(cs, r.next) > Len(cs) THEN r ELSE JsonFail

\* key in d, for a parsed dict d
HasKey(d, key) == \E i \in 1..Len(d.items) : d.items[i][1] = key

\* d[key]: of members with the same key the last one stands
GetKey(d, key) ==
    LET i == CHOOSE i \in 1..Len(d.items) :
                 /\ d.items[i][1] = key
                 /\ \A j \in (i + 1)..Len(d.items) : d.items[j][1] # key
    IN  d.items[i][2]

(***************************************************************************)
(* str.strip() and str.lower(), on the characters the model's messages     *)
(* are written with.                                                       *)
(***************************************************************************)
Whitespace == {" ", "\n", "\t", "\r"}
UpperChars == <<"A", "B", "C", "D", "E", "F", "G", "H", "I", "J", "K", "L", "M",
                "N", "O", "P", "Q", "R", "S", "T", "U", "V", "W", "X", "Y", "Z">>
LowerChars == <<"a", "b", "c", "d", "e", "f", "g", "h", "i", "j", "k", "l", "m",
                "n", "o", "p", "q", "r", "s", "t", "u", "v", "w", "x", "y", "z">>

LowerChar(c) ==
    IF \E k \in 1..Len(UpperChars) : UpperChars[k] = c
    THEN LowerChars[CHOOSE k \in 1..Len(UpperChars) : UpperChars[k] = c]
    ELSE c

RECURSIVE Lower(_)
\* s.lower()
Lower(s) ==
    IF s = << >> THEN << >>
    ELSE Cat(<< <<LowerChar(s[1][1]), s[1][2]>> >>, Lower(Tail(s)))

RECURSIVE LStrip(_)
LStrip(s) ==
    IF s # << >> /\ s[1][1] \in Whitespace THEN LStrip(Tail(s)) ELSE s

RECURSIVE RStrip(_)
RStrip(s) ==
    IF s # << >> /\ s[Len(s)][1] \in Whitespace
    THEN RStrip(SubSeq(s, 1, Len(s) - 1))
    ELSE s

\* s.strip()
Strip(s) == RStrip(LStrip(s))

(***************************************************************************)
(* The values the environment supplies.                                    *)
(***************************************************************************)
\* user messages a client sends: data.get("message", "")
Hello == Lit(<<"h", "e", "l", "l", "o">>)
ResetCommand == Lit(<<"/", "r", "e", "s", "e", "t">>)
ResetSpelled == Lit(<<" ", "/", "R", "e", "s", "e", "t", "\n">>)
EmptyMessage == << >>
UserMessages == {Hello, ResetCommand, ResetSpelled, EmptyMessage}

\* texts of the model's text blocks
HelloBack == Lit(<<"h", "e", "l", "l", "o", " ", "b", "a", "c", "k">>)

\* tool results of the handlers
R42 == Lit(<<"4", "2">>)
RLong == Cat(Rep("a", 2000), Rep("b", 2001))
ImagePayload == Lit(<<"i", "V", "B", "O">>)
AudioPayload == Lit(<<"S", "U", "Q", "z">>)
RBoth ==
    Cat(Lit(<<"{", "\"", "i", "m", "a", "g", "e", "_", "b", "a", "s", "e", "6", "4", "\"", ":", " ", "\"">>),
    Cat(ImagePayload,
    Cat(Lit(<<"\"", ",", " ", "\"", "a", "u", "d", "i", "o", "_", "b", "a", "s", "e", "6", "4", "\"", ":", " ", "\"">>),
    Cat(AudioPayload, Lit(<<"\"", "}">>)))))
\* results of other shapes: an object with one of the keys, an array and a
\* string that hold a key's name, an object with neither key
RImage ==
    Cat(Lit(<<"{", "\"", "i", "m", "a", "g", "e", "_", "b", "a", "s", "e", "6", "4", "\"", ":", "\"">>),
    Cat(ImagePayload, Lit(<<"\"", "}">>)))
RAudio ==
    Cat(Lit(<<"{", "\"", "a", "u", "d", "i", "o", "_", "b", "a", "s", "e", "6", "4", "\"", ":", "\"">>),
    Cat(AudioPayload, Lit(<<"\"", "}">>)))
RArray == Lit(<<"[", "\"", "i", "m", "a", "g", "e", "_", "b", "a", "s", "e", "6", "4", "\"", "]">>)
RString == Lit(<<"\"", "a", "u", "d", "i", "o", "_", "b", "a", "s", "e", "6", "4", "\"">>)
RPlain == Lit(<<"{", "\"", "n", "\"", ":", " ", "1", "}">>)
\* str(exc) of a handler's exception: "boom" and 1996 exclamation marks
Boom == Cat(Lit(<<"b", "o", "o", "m">>), Rep("!", 1996))

\* What a registered handler may do when it is called.
HandlerOutcomes == {Returns(R42), Returns(RLong), Returns(RBoth), Raises(Boom)}
CanonicalOutcome == Returns(R42)
\* ... and with results of the other shapes
ShapedOutcomes ==
    {Returns(RImage), Returns(RAudio), Returns(RArray), Returns(RString),
     Returns(RPlain)}

\* Content blocks of a model response; a tool_use block gets its id when the
\* response is made.
TextBlock(t) == [type |-> "text", text |-> t]
ToolUseBlock(id, name, input) ==
    [type |-> "tool_use", id |-> id, name |-> name, input |-> input]
ToolResultBlock(id, content) ==
    [type |-> "tool_result", tool_use_id |-> id, content |-> content]

BlockShapes ==
    { TextBlock(HelloBack),
      ToolUseBlock(0, SnapshotName, [id |-> "4LDJ"]),
      ToolUseBlock(0, LookupName, [id |-> "X"]) }

\* the contents a response may have: one or two blocks
ContentShapes ==
    { <<b>> : b \in BlockShapes } \cup (BlockShapes \X BlockShapes)

StopReasons == {"end_turn", "tool_use"}

\* the responses sent once the variety of the run is used up: a plain reply,
\* or one more tool request
CanonicalContents ==
    { <<TextBlock(HelloBack)>>, <<ToolUseBlock(0, SnapshotName, [id |-> "4LDJ"])>> }

IsToolUse(b) == b.type = "tool_use"

CanonicalStop(content) == IF IsToolUse(content[1]) THEN "tool_use" ELSE "end_turn"

\* the number of tool_use blocks among the first k blocks of content
RECURSIVE ToolUsesIn(_, _)
ToolUsesIn(content, k) ==
    IF k = 0 THEN 0
    ELSE ToolUsesIn(content, k - 1) + (IF IsToolUse(content[k]) THEN 1 ELSE 0)

\* The completion service gives every tool_use block an id of its own: here
\* the n-th tool_use block of the r-th response of an invocation gets <<r, n>>.
WithIds(content, r) ==
    [k \in 1..Len(content) |->
        IF IsToolUse(content[k])
        THEN [content[k] EXCEPT !.id = <<r, ToolUsesIn(content, k)>>]
        ELSE content[k]]

(***************************************************************************)
(* The Model Gateway: ProteoAgent._call_claude.                            *)
(***************************************************************************)
\* what client.post(..) may come back with
HttpResponse(status, body) == [kind |-> "response", status |-> status, body |-> body]
ConnectError == [kind |-> "network", status |-> 0, body |-> << >>]

ServerErrorText == Lit(<<"o", "v", "e", "r", "l", "o", "a", "d", "e", "d">>)
ConnectErrorText == Lit(<<"c", "o", "n", "n", "e", "c", "t", " ", "f", "a", "i", "l", "e", "d">>)
StatusErrorText == Lit(<<"S", "e", "r", "v", "e", "r", " ", "e", "r", "r", "o", "r">>)

\* _call_claude(messages), given the HTTP exchange: the decoded body, or the
\* exception that leaves the function
CallClaude(http) ==
    IF http.kind = "network" THEN Raises(ConnectErrorText)
    ELSE IF http.status \notin 200..299 THEN Raises(StatusErrorText)
    ELSE Returns(http.body)

\* what _call_claude writes with logging.error
CallClaudeLog(http) ==
    IF http.kind = "response" /\ http.status # 200
    THEN << [status |-> http.status, body |-> http.body] >>
    ELSE << >>

(***************************************************************************)
(* Stream events (the dataclasses of agent.py) and the records chat_ws     *)
(* sends for them.                                                         *)
(***************************************************************************)
TextDelta(text) == [type |-> "TextDelta", text |-> text]
ToolUse(tool_name, tool_input, result) ==
    [type |-> "ToolUse", tool_name |-> tool_name, tool_input |-> tool_input,
     result |-> result]
ImageResult(base64_png, caption) ==
    [type |-> "ImageResult", base64_png |-> base64_png, caption |-> caption]
AudioResult(base64_mp3, caption) ==
    [type |-> "AudioResult", base64_mp3 |-> base64_mp3, caption |-> caption]
StreamEnd == [type |-> "StreamEnd"]

\* the isinstance chain of chat_ws: the JSON record sent for an event
WsRecord(event) ==
    IF event.type = "TextDelta" THEN [type |-> "text", text |-> event.text]
    ELSE IF event.type = "ToolUse"
         THEN [type |-> "tool", tool_name |-> event.tool_name,
               tool_input |-> event.tool_input, result |-> event.result]
    ELSE IF event.type = "ImageResult"
         THEN [type |-> "image", base64 |-> event.base64_png, caption |-> event.caption]
    ELSE IF event.type = "AudioResult"
         THEN [type |-> "audio", base64 |-> event.base64_mp3, caption |-> event.caption]
    ELSE [type |-> "done"]

WsRecords(evs) == [k \in 1..Len(evs) |-> WsRecord(evs[k])]

ConversationReset == Lit(<<"C", "o", "n", "v", "e", "r", "s", "a", "t", "i", "o", "n", " ", "r", "e", "s", "e", "t", ".">>)
SystemRecord == [type |-> "system", text |-> ConversationReset]
ErrorRecord(text) == [type |-> "error", text |-> text]

ImageKey == Lit(<<"i", "m", "a", "g", "e", "_", "b", "a", "s", "e", "6", "4">>)
AudioKey == Lit(<<"a", "u", "d", "i", "o", "_", "b", "a", "s", "e", "6", "4">>)
ResultSuffix == Lit(<<" ", "r", "e", "s", "u", "l", "t">>)
VoiceNarration == Lit(<<"V", "o", "i", "c", "e", " ", "n", "a", "r", "r", "a", "t", "i", "o", "n">>)

\* the audio key looked up first
ArtifactEventsAudioFirst(tool_name, result_str) ==
    LET parsed == JsonLoads(result_str)
    IN  IF parsed.ok /\ parsed.v.k = "dict"
        THEN (IF HasKey(parsed.v, AudioKey)
              THEN << AudioResult(GetKey(parsed.v, AudioKey), VoiceNarration) >>
              ELSE << >>)
             \o
             (IF HasKey(parsed.v, ImageKey)
              THEN << ImageResult(GetKey(parsed.v, ImageKey), Cat(tool_name, ResultSuffix)) >>
              ELSE << >>)
        ELSE << >>

\* `elif` for the second key: one artifact per result at most
ArtifactEventsOneOnly(tool_name, result_str) ==
    LET parsed == JsonLoads(result_str)
    IN  IF parsed.ok /\ parsed.v.k = "dict"
        THEN IF HasKey(parsed.v, ImageKey)
             THEN << ImageResult(GetKey(parsed.v, ImageKey), Cat(tool_name, ResultSuffix)) >>
             ELSE IF HasKey(parsed.v, AudioKey)
             THEN << AudioResult(GetKey(parsed.v, AudioKey), VoiceNarration) >>
             ELSE << >>
        ELSE << >>

\* the artifact events of a tool result: agent.py, the try block after the
\* handler has returned
ArtifactEvents(tool_name, result_str) ==
    LET parsed == JsonLoads(result_str)
    IN  IF parsed.ok /\ parsed.v.k = "dict"
        THEN (IF HasKey(parsed.v, ImageKey)
              THEN << ImageResult(GetKey(parsed.v, ImageKey), Cat(tool_name, ResultSuffix)) >>
              ELSE << >>)
             \o
             (IF HasKey(parsed.v, AudioKey)
              THEN << AudioResult(GetKey(parsed.v, AudioKey), VoiceNarration) >>
              ELSE << >>)
        ELSE << >>

\* the two caps of chat: result_str[:2000] is streamed, result_str[:4000] is
\* handed back to the model
StreamCap == 2000
ModelCap == 4000
\* one cap for both: the streamed text cut like the re-injected one
StreamedResultModelCap(result_str) == Take(result_str, ModelCap)
StreamedResult(result_str) == Take(result_str, StreamCap)
ReinjectedResult(result_str) == Take(result_str, ModelCap)

Message(role, content) == [role |-> role, content |-> content]

(***************************************************************************)
(* State.                                                                  *)
(***************************************************************************)
VARIABLES
    conversation,   \* self.conversation of the connection's ProteoAgent
    messages,       \* chat: the local list sent to the model
    round,          \* chat: the iteration of `for _ in range(max_rounds)`
    response,       \* chat: the response of the current round
    blk,            \* chat: the index of the block being processed
    has_tool_use,   \* chat: local of the round
    text_parts,     \* chat: local of the round
    tool_results,   \* chat: local of the round
    result_str,     \* chat: the result of the latest _execute_tool call
    pc,             \* where chat stands: idle, call, await, blocks, tool,
                    \*   end, done, crashed
    conn,           \* chat_ws: "open" in its receive loop, "closed" once left
    events,         \* the events the current chat invocation has yielded
    sent,           \* the records sent on the socket since that invocation
                    \*   began (since the connection opened, before the first)
    calls,          \* the number of _call_claude calls of the invocation
    payload,        \* the "messages" of the latest _call_claude call
    log,            \* what _call_claude has logged in the invocation
    executing,      \* the ids of the tool_use blocks whose _execute_tool call
                    \*   is running in the executor
    outcome,        \* what the handler did in the latest _execute_tool call
    turns,          \* non-empty messages received on the connection
    varied,         \* invocations whose first response was drawn from all
                    \*   shapes so far
    free,           \* whether the current response was so drawn
    tools,          \* the "tools" of the latest _call_claude call
    active,         \* the chat invocations of the agent that have begun and
                    \*   not ended
    peer,           \* the client of the connection: "connected" or "gone"
    conversation2,  \* self.conversation of a second connection's ProteoAgent
    pc2,            \* where the second connection stands
    payload2,       \* the "messages" of its latest _call_claude call
    sent2,          \* the records sent on its socket
    turns2          \* non-empty messages received on it

vars == <<conversation, messages, round, response, blk, has_tool_use,
          text_parts, tool_results, result_str, pc, conn, events, sent, calls,
          payload, log, executing, outcome, turns, varied, free, tools,
          active, peer, conversation2, pc2, payload2, sent2, turns2>>

\* the locals of chat
frame == <<messages, round, response, blk, has_tool_use, text_parts,
           tool_results, result_str>>

\* the second connection, but for its agent's history
session2 == <<pc2, payload2, sent2, turns2>>

\* what the environment is doing or has done for the invocation
env == <<executing, outcome>>

\* max_rounds of chat
max_rounds == 10

\* non-empty messages a connection receives
MaxTurns == 3
\* invocations per connection whose first response is drawn from all of
\* ContentShapes, with handlers that do any of HandlerOutcomes
MaxVaried == 1

NoResponse == [content |-> << >>, stop_reason |-> "none"]
\* no handler has been called
NotCalled == [kind |-> "none", text |-> << >>]

Init ==
    /\ conversation = << >>
    /\ messages = << >>
    /\ round = 0
    /\ response = NoResponse
    /\ blk = 0
    /\ has_tool_use = FALSE
    /\ text_parts = << >>
    /\ tool_results = << >>
    /\ result_str = << >>
    /\ pc = "idle"
    /\ conn = "open"
    /\ events = << >>
    /\ sent = << >>
    /\ calls = 0
    /\ payload = << >>
    /\ log = << >>
    /\ executing = { }
    /\ outcome = NotCalled
    /\ turns = 0
    /\ varied = 0
    /\ free = FALSE
    /\ tools = << >>
    /\ active = 0
    /\ peer = "connected"
    /\ conversation2 = << >>
    /\ pc2 = "idle"
    /\ payload2 = << >>
    /\ sent2 = << >>
    /\ turns2 = 0

\* a reset that spares the opening message
ResetKeepsFirst(conv) == IF conv = << >> THEN << >> ELSE << conv[1] >>

\* ProteoAgent.reset: self.conversation.clear()
Reset(conv) == << >>

\* a socket on which sending to a client that is gone passes silently
SendNeverRaises(client) == FALSE

\* chat_ws: `await ws.send_json(..)` raises when the client is gone
SendRaises(client) == client = "gone"

\* `yield event` in chat and the send_json of chat_ws that takes it
Yield(evs) ==
    /\ ~SendRaises(peer)
    /\ events' = events \o evs
    /\ sent' = sent \o WsRecords(evs)

\* An exception leaves chat: chat_ws reports it (except Exception) and
\* returns, which ends the connection.
Propagate(text) ==
    /\ sent' = Append(sent, ErrorRecord(text))
    /\ conn' = "closed"
    /\ pc' = "crashed"
    /\ active' = active - 1

\* only the new message is sent to the model
InitialMessagesLatestOnly(conv) == << conv[Len(conv)] >>

\* chat: messages = list(self.conversation)
InitialMessages(conv) == conv

\* nothing is streamed until the handler has returned
BeforeHandlerSilent(tool_name, tool_input) == << >>

\* chat: what is yielded for a tool_use block before the handler is started
BeforeHandler(tool_name, tool_input) == << ToolUse(tool_name, tool_input, << >>) >>

\* the user message kept back until the turn has succeeded
WithUserMessageDeferred(conv, user_msg) == conv

\* chat: self.conversation.append({"role": "user", "content": user_message})
WithUserMessage(conv, user_msg) == Append(conv, Message("user", user_msg))

\* the command compared as it is spelled, without strip() and lower()
IsResetCommandExact(user_msg) == user_msg = ResetCommand

\* chat_ws: user_msg.strip().lower() == "/reset"
IsResetCommand(user_msg) == Lower(Strip(user_msg)) = ResetCommand

\* a reader that takes the next message whatever the chat is doing
MayReceiveAnytime(at) == TRUE

\* chat_ws: receive_json is awaited at the top of `while True` only, that is
\* before the first chat and after `async for` has exhausted the latest one
MayReceive(at) == at \in {"idle", "done"}

\* chat_ws: one pass of `while True` up to the first suspension of chat
Receive ==
    /\ conn = "open"
    /\ MayReceive(pc)
    /\ turns < MaxTurns
    /\ \E user_msg \in UserMessages :
        /\ turns' = IF user_msg = EmptyMessage THEN turns ELSE turns + 1
        /\ IF user_msg = EmptyMessage
           THEN UNCHANGED <<conversation, frame, env, pc, conn, events, sent,
                            calls, payload, log, varied, free,
                            tools, peer, conversation2, session2, active>>
           ELSE IF IsResetCommand(user_msg)
           THEN /\ conversation' = Reset(conversation)
                /\ sent' = Append(sent, SystemRecord)
                /\ UNCHANGED <<frame, env, pc, conn, events, calls, payload,
                               log, varied, free,
                               tools, peer, conversation2, session2, active>>
           ELSE /\ conversation' = WithUserMessage(conversation, user_msg)
                /\ messages' = InitialMessages(conversation')
                /\ round' = 1
                /\ pc' = "call"
                /\ events' = << >>
                /\ sent' = << >>
                /\ calls' = 0
                /\ payload' = << >>
                /\ log' = << >>
                /\ active' = active + 1
                /\ UNCHANGED <<response, blk, has_tool_use, text_parts,
                               tool_results, result_str, env, conn, varied, free,
                               tools, peer, conversation2, session2>>

\* chat: `await self._call_claude(messages)` is entered
CallClaudeStart ==
    /\ pc = "call"
    /\ calls' = calls + 1
    /\ payload' = messages
    /\ pc' = "await"
    /\ tools' = ToolDefinitions(TOOL_REGISTRY)
    /\ UNCHANGED <<conversation, frame, env, conn, events, sent, log,
                   turns, varied, free, active, peer, conversation2, session2>>

\* the response at hand may be drawn from all shapes
MayVary == varied < MaxVaried /\ round = 1

\* the HTTP exchanges the completion service may answer the call with
HttpOutcomes ==
    { HttpResponse(200, [content |-> c, stop_reason |-> sr]) :
          c \in (IF MayVary THEN ContentShapes ELSE { }),
          sr \in StopReasons }
    \cup { HttpResponse(200, [content |-> c, stop_reason |-> CanonicalStop(c)]) :
               c \in CanonicalContents }
    \cup { HttpResponse(500, ServerErrorText), ConnectError }

\* A block or a body that lacks a key the code reads keeps the shape of a
\* complete one and names the missing key in `lacks`.
Lacks(d, key) == "lacks" \in DOMAIN d /\ d.lacks = key

\* chat: response.get("content", []) and response.get("stop_reason"), with
\* the ids the service has given to the tool_use blocks
Received(body, r) ==
    IF "content" \in DOMAIN body
    THEN [body EXCEPT !.content = WithIds(@, r)]
    ELSE [content |-> << >>,
          stop_reason |-> IF "stop_reason" \in DOMAIN body
                          THEN body.stop_reason ELSE "none",
          lacks |-> "content"]

\* chat: _call_claude comes back, given the HTTP exchange
Answered(http) ==
        /\ log' = log \o CallClaudeLog(http)
        /\ LET r == CallClaude(http)
           IN  IF r.kind = "raise"
               THEN /\ Propagate(r.text)
                    /\ UNCHANGED <<conversation, frame, env, events, calls,
                                   payload, turns, varied, free,
                                   tools, peer, conversation2, session2>>
               ELSE /\ response' = Received(r.text, round)
                    /\ has_tool_use' = FALSE
                    /\ text_parts' = << >>
                    /\ tool_results' = << >>
                    /\ blk' = 1
                    /\ pc' = "blocks"
                    /\ free' = MayVary
                    /\ varied' = IF MayVary THEN varied + 1 ELSE varied
                    /\ UNCHANGED <<conversation, messages, round, result_str,
                                   env, conn, events, sent, calls, payload, turns,
                                   tools, peer, conversation2, session2, active>>

\* chat: _call_claude comes back
CallClaudeEnd ==
    /\ pc = "await"
    /\ \E http \in HttpOutcomes : Answered(http)

\* chat: a text block of the response
TextBlockStep ==
    /\ pc = "blocks"
    /\ blk <= Len(response.content)
    /\ response.content[blk].type = "text"
    /\ ~Lacks(response.content[blk], "text")
    /\ text_parts' = Append(text_parts, response.content[blk].text)
    /\ Yield(<< TextDelta(response.content[blk].text) >>)
    /\ blk' = blk + 1
    /\ UNCHANGED <<conversation, messages, round, response, has_tool_use,
                   tool_results, result_str, env, pc, conn, calls, payload,
                   log, turns, varied, free,
                   tools, peer, conversation2, session2, active>>

\* chat: a tool_use block of the response, up to run_in_executor
ToolUseStart ==
    /\ pc = "blocks"
    /\ blk <= Len(response.content)
    /\ response.content[blk].type = "tool_use"
    /\ ~Lacks(response.content[blk], "name")
    /\ has_tool_use' = TRUE
    /\ Yield(BeforeHandler(response.content[blk].name, response.content[blk].input))
    /\ executing' = executing \cup {response.content[blk].id}
    /\ pc' = "tool"
    /\ UNCHANGED <<conversation, messages, round, response, blk, text_parts,
                   tool_results, result_str, outcome, conn, calls, payload,
                   log, turns, varied, free,
                   tools, peer, conversation2, session2, active>>

\* chat: the rest of the tool_use branch, given what the handler did
Executed(does) ==
        LET block == response.content[blk]
            r == ExecuteTool(block.name, does)
        IN  /\ executing' = executing \ {block.id}
            /\ outcome' = IF block.name \in RegisteredNames THEN does ELSE NotCalled
            /\ IF r.kind = "raise"
               THEN /\ Propagate(r.text)
                    /\ UNCHANGED <<conversation, frame, events, calls, payload,
                                   log, turns, varied, free,
                                   tools, peer, conversation2, session2>>
               ELSE /\ result_str' = r.text
                    /\ Yield(ArtifactEvents(block.name, result_str')
                             \o << ToolUse(block.name, block.input,
                                           StreamedResult(result_str')) >>)
                    /\ tool_results' =
                           Append(tool_results,
                                  ToolResultBlock(block.id, ReinjectedResult(result_str')))
                    /\ blk' = blk + 1
                    /\ pc' = "blocks"
                    /\ UNCHANGED <<conversation, messages, round, response,
                                   has_tool_use, text_parts, conn, calls, payload,
                                   log, turns, varied, free,
                                   tools, peer, conversation2, session2, active>>

\* chat: the executor has run _execute_tool
ToolUseEnd ==
    /\ pc = "tool"
    /\ ~Lacks(response.content[blk], "id")
    /\ \E does \in (IF free THEN HandlerOutcomes ELSE {CanonicalOutcome}) :
           Executed(does)

\* a round sent on with the outcome of its last request missing
WithRoundPartial(msgs, content, results) ==
    Append(Append(msgs, Message("assistant", content)),
           Message("user", SubSeq(results, 1, Len(results) - 1)))

\* a round sent on without the message of its outcomes
WithRoundNoOutcomes(msgs, content, results) ==
    Append(msgs, Message("assistant", content))

\* chat: messages.append(assistant); messages.append(user tool_results)
WithRound(msgs, content, results) ==
    Append(Append(msgs, Message("assistant", content)), Message("user", results))

\* a loop that is not bounded: `while True`
MoreRoundsUnbounded(r) == TRUE

\* a loop bounded one round late: range(max_rounds + 1)
MoreRoundsOneMore(r) == r <= max_rounds

\* chat: `for _ in range(max_rounds)` has another iteration after round r
MoreRounds(r) == r < max_rounds

\* a loop that goes on as long as tools were requested, whatever the stop
\* reason
LoopBreaksWithoutTools(tools_used, stop_reason) == ~tools_used

\* `and` for `or`: the loop is left only on a text reply that says end_turn
LoopBreaksOnTextOnly(tools_used, stop_reason) ==
    ~tools_used /\ stop_reason = "end_turn"

\* chat: `if not has_tool_use or response.get("stop_reason") == "end_turn"`
LoopBreaks(tools_used, stop_reason) == ~tools_used \/ stop_reason = "end_turn"

\* chat: the blocks are done; the end of the round
EndRound ==
    /\ pc = "blocks"
    /\ blk > Len(response.content)
    /\ IF LoopBreaks(has_tool_use, response.stop_reason)
       THEN /\ messages' = Append(messages, Message("assistant", response.content))
            /\ conversation' = Append(conversation,
                                      Message("assistant", Join(NL, text_parts)))
            /\ pc' = "end"
            /\ round' = round
       ELSE /\ messages' = WithRound(messages, response.content, tool_results)
            /\ conversation' = conversation
            /\ IF MoreRounds(round)
               THEN round' = round + 1 /\ pc' = "call"
               ELSE round' = round /\ pc' = "end"
    /\ UNCHANGED <<response, blk, has_tool_use, text_parts, tool_results,
                   result_str, env, conn, events, sent, calls, payload, log,
                   turns, varied, free,
                   tools, peer, conversation2, session2, active>>

\* chat: `yield StreamEnd()`, after which the generator is exhausted
Finish ==
    /\ pc = "end"
    /\ Yield(<< StreamEnd >>)
    /\ pc' = "done"
    /\ messages' = << >>
    /\ round' = 0
    /\ response' = NoResponse
    /\ blk' = 0
    /\ has_tool_use' = FALSE
    /\ text_parts' = << >>
    /\ tool_results' = << >>
    /\ result_str' = << >>
    /\ outcome' = NotCalled
    /\ active' = active - 1
    /\ UNCHANGED <<conversation, executing, conn, calls, payload, log, turns,
                   varied, free, tools, peer, conversation2, session2>>

Next ==
    \/ Receive
    \/ CallClaudeStart
    \/ CallClaudeEnd
    \/ TextBlockStep
    \/ ToolUseStart
    \/ ToolUseEnd
    \/ EndRound
    \/ Finish

Spec == Init /\ [][Next]_vars

-----------------------------------------------------------------------------
\* Handlers whose results have the other shapes

\* chat: the executor has run _execute_tool, with such a handler
ToolUseEndShaped ==
    /\ pc = "tool"
    /\ free
    /\ ~Lacks(response.content[blk], "id")
    /\ \E does \in ShapedOutcomes : Executed(does)

ArtifactNext == Next \/ ToolUseEndShaped

ArtifactSpec == Init /\ [][ArtifactNext]_vars

(***************************************************************************)
(* A completion service that does not keep to the contract: answers with   *)
(* a status other than 200 or 4xx/5xx, bodies without content, blocks      *)
(* without a key that chat reads.                                          *)
(***************************************************************************)
NoTextBlock == [type |-> "text", text |-> << >>, lacks |-> "text"]
NoNameBlock ==
    [type |-> "tool_use", id |-> 0, name |-> << >>, input |-> [id |-> "4LDJ"],
     lacks |-> "name"]
NoIdBlock ==
    [type |-> "tool_use", id |-> 0, name |-> SnapshotName, input |-> [id |-> "4LDJ"],
     lacks |-> "id"]

MalformedContents ==
    { <<NoTextBlock>>, <<NoNameBlock>>, <<NoIdBlock>>,
      <<TextBlock(HelloBack), NoNameBlock>>,
      <<ToolUseBlock(0, SnapshotName, [id |-> "4LDJ"]), NoIdBlock>> }

NotFoundText == Lit(<<"n", "o", "t", " ", "f", "o", "u", "n", "d">>)

OddHttpOutcomes ==
    { HttpResponse(200, [content |-> c, stop_reason |-> CanonicalStop(c)]) :
          c \in MalformedContents }
    \cup { HttpResponse(200, [stop_reason |-> "end_turn"]) }
    \cup { HttpResponse(202, [content |-> c, stop_reason |-> CanonicalStop(c)]) :
               c \in CanonicalContents }
    \cup { HttpResponse(301, NotFoundText), HttpResponse(404, NotFoundText) }

\* chat: _call_claude comes back from such a service
CallClaudeEndOdd ==
    /\ pc = "await"
    /\ MayVary
    /\ \E http \in OddHttpOutcomes : Answered(http)

\* str(KeyError(key))
KeyErrorText(key) ==
    Cat(Quote, Cat(IF key = "text" THEN Lit(<<"t", "e", "x", "t">>)
                   ELSE IF key = "name" THEN Lit(<<"n", "a", "m", "e">>)
                   ELSE Lit(<<"i", "d">>),
                   Quote))

\* chat: block["text"] or block["name"] raises KeyError; nothing has been
\* yielded for the block
BlockKeyError ==
    /\ pc = "blocks"
    /\ blk <= Len(response.content)
    /\ \/ /\ response.content[blk].type = "text"
          /\ Lacks(response.content[blk], "text")
          /\ has_tool_use' = has_tool_use
          /\ Propagate(KeyErrorText("text"))
       \/ /\ response.content[blk].type = "tool_use"
          /\ Lacks(response.content[blk], "name")
          /\ has_tool_use' = TRUE
          /\ Propagate(KeyErrorText("name"))
    /\ UNCHANGED <<conversation, messages, round, response, blk, text_parts,
                   tool_results, result_str, env, events, calls, payload, log,
                   turns, varied, free,
                   tools, peer, conversation2, session2>>

\* chat: the handler has run and its events are yielded, then block["id"]
\* raises KeyError
ToolUseEndKeyError ==
    /\ pc = "tool"
    /\ Lacks(response.content[blk], "id")
    /\ \E does \in (IF free THEN HandlerOutcomes ELSE {CanonicalOutcome}) :
        LET block == response.content[blk]
            r == ExecuteTool(block.name, does)
            evs == ArtifactEvents(block.name, r.text)
                   \o << ToolUse(block.name, block.input, StreamedResult(r.text)) >>
        IN  /\ r.kind = "return"
            /\ executing' = executing \ {block.id}
            /\ outcome' = IF block.name \in RegisteredNames THEN does ELSE NotCalled
            /\ result_str' = r.text
            /\ events' = events \o evs
            /\ sent' = (sent \o WsRecords(evs)) \o << ErrorRecord(KeyErrorText("id")) >>
            /\ conn' = "closed"
            /\ pc' = "crashed"
            /\ active' = active - 1
            /\ UNCHANGED <<conversation, messages, round, response, blk,
                           has_tool_use, text_parts, tool_results, calls,
                           payload, log, turns, varied, free,
                           tools, peer, conversation2, session2>>

ProtocolNext ==
    \/ Next
    \/ CallClaudeEndOdd
    \/ BlockKeyError
    \/ ToolUseEndKeyError

ProtocolSpec == Init /\ [][ProtocolNext]_vars

-----------------------------------------------------------------------------
\* A handler that does not return

\* chat: result_str = await loop.run_in_executor(None, partial(...)) has no
\* time limit: while the handler runs the coroutine waits, and with it the
\* socket handler that iterates over it
HandlerHangs ==
    /\ pc = "tool"
    /\ pc' = "hung"
    /\ UNCHANGED << conversation, messages, round, response, blk, has_tool_use,
                    text_parts, tool_results, result_str, conn, events, sent,
                    calls, payload, log, executing, outcome, turns, varied, free,
                    tools, peer, conversation2, session2, active>>

HangNext == Next \/ HandlerHangs

HangSpec == Init /\ [][HangNext]_vars

-----------------------------------------------------------------------------
\* A client that goes away

\* the client closes the connection or is lost
Disconnect ==
    /\ conn = "open"
    /\ peer = "connected"
    /\ peer' = "gone"
    /\ UNCHANGED <<conversation, frame, env, pc, conn, events, sent, calls,
                   payload, log, turns, varied, free, tools, active,
                   conversation2, session2>>

\* chat_ws: receive_json raises WebSocketDisconnect, which is logged; the
\* handler returns
ReceiveDisconnected ==
    /\ conn = "open"
    /\ MayReceive(pc)
    /\ peer = "gone"
    /\ conn' = "closed"
    /\ UNCHANGED <<conversation, frame, env, pc, events, sent, calls, payload,
                   log, turns, varied, free, tools, active, peer,
                   conversation2, session2>>

\* chat yields ev and the send_json of chat_ws for it raises: chat_ws leaves
\* `async for` through one of its except clauses (the error record it may
\* try to send is lost as well) and returns; chat is not resumed
Abandon(ev) ==
    /\ SendRaises(peer)
    /\ events' = Append(events, ev)
    /\ conn' = "closed"
    /\ pc' = "abandoned"
    /\ active' = active - 1
    /\ UNCHANGED <<conversation, messages, round, response, blk, tool_results,
                   sent, calls, payload, log, turns, varied, free, tools, peer,
                   conversation2, session2>>

\* chat: a text block, its TextDelta not taken
TextBlockAbandoned ==
    /\ pc = "blocks"
    /\ blk <= Len(response.content)
    /\ response.content[blk].type = "text"
    /\ ~Lacks(response.content[blk], "text")
    /\ text_parts' = Append(text_parts, response.content[blk].text)
    /\ Abandon(TextDelta(response.content[blk].text))
    /\ UNCHANGED <<has_tool_use, result_str, env>>

\* chat: a tool_use block, its first ToolUse event not taken: the handler
\* is not started
ToolUseStartAbandoned ==
    /\ pc = "blocks"
    /\ blk <= Len(response.content)
    /\ response.content[blk].type = "tool_use"
    /\ ~Lacks(response.content[blk], "name")
    /\ BeforeHandler(response.content[blk].name, response.content[blk].input) # << >>
    /\ has_tool_use' = TRUE
    /\ Abandon(BeforeHandler(response.content[blk].name, response.content[blk].input)[1])
    /\ UNCHANGED <<text_parts, result_str, env>>

\* chat: the executor has run _execute_tool to its end; the first event
\* yielded after it is not taken
ToolUseEndAbandoned ==
    /\ pc = "tool"
    /\ \E does \in (IF free THEN HandlerOutcomes ELSE {CanonicalOutcome}) :
        LET block == response.content[blk]
            r == ExecuteTool(block.name, does)
            evs == ArtifactEvents(block.name, r.text)
                   \o << ToolUse(block.name, block.input, StreamedResult(r.text)) >>
        IN  /\ r.kind = "return"
            /\ executing' = executing \ {block.id}
            /\ outcome' = IF block.name \in RegisteredNames THEN does ELSE NotCalled
            /\ result_str' = r.text
            /\ Abandon(evs[1])
            /\ UNCHANGED <<has_tool_use, text_parts>>

\* chat: StreamEnd not taken
FinishAbandoned ==
    /\ pc = "end"
    /\ Abandon(StreamEnd)
    /\ UNCHANGED <<has_tool_use, text_parts, result_str, env>>

DisconnectNext ==
    \/ Next
    \/ Disconnect
    \/ ReceiveDisconnected
    \/ TextBlockAbandoned
    \/ ToolUseStartAbandoned
    \/ ToolUseEndAbandoned
    \/ FinishAbandoned

DisconnectSpec == Init /\ [][DisconnectNext]_vars

-----------------------------------------------------------------------------
\* A second connection, served by the same process.  Its model answers
\* with one text block or the call fails, so that a chat of it is one
\* suspension long.

\* non-empty messages the second connection receives
MaxOtherTurns == 2

Other == Lit(<<"o", "t", "h", "e", "r">>)
OtherBack == Lit(<<"o", "t", "h", "e", "r", " ", "b", "a", "c", "k">>)

\* the history as an attribute of the class: one list for all agents
SessionListShared(session) == 1

\* ProteoAgent.__init__: self.conversation = [], a list of the agent's own;
\* the lists are numbered as the connections are
SessionList(session) == session

ReadList(list) == IF list = 1 THEN conversation ELSE conversation2

WriteList(list, v) ==
    IF list = 1
    THEN conversation' = v /\ conversation2' = conversation2
    ELSE conversation2' = v /\ conversation' = conversation

\* chat_ws of the second connection: one pass of `while True` up to the
\* suspension of chat in _call_claude
OtherReceive ==
    /\ MayReceive(pc2)
    /\ turns2 < MaxOtherTurns
    /\ turns2' = turns2 + 1
    /\ \E user_msg \in {Other, ResetCommand} :
          IF IsResetCommand(user_msg)
          THEN /\ WriteList(SessionList(2), Reset(ReadList(SessionList(2))))
               /\ sent2' = Append(sent2, SystemRecord)
               /\ UNCHANGED <<pc2, payload2>>
          ELSE LET conv == WithUserMessage(ReadList(SessionList(2)), user_msg)
               IN  /\ WriteList(SessionList(2), conv)
                   /\ payload2' = InitialMessages(conv)
                   /\ sent2' = << >>
                   /\ pc2' = "await"
    /\ UNCHANGED <<frame, env, pc, conn, events, sent, calls, payload, log,
                   turns, varied, free, tools, active, peer>>

\* chat of the second connection from the return of _call_claude to its end
OtherCallClaudeEnd ==
    /\ pc2 = "await"
    /\ \E http \in { HttpResponse(200, [content |-> << TextBlock(OtherBack) >>,
                                        stop_reason |-> "end_turn"]),
                      HttpResponse(500, ServerErrorText), ConnectError } :
          LET r == CallClaude(http)
          IN  IF r.kind = "raise"
              THEN /\ sent2' = Append(sent2, ErrorRecord(r.text))
                   /\ pc2' = "crashed"
                   /\ UNCHANGED <<conversation, conversation2>>
              ELSE /\ WriteList(SessionList(2),
                                Append(ReadList(SessionList(2)),
                                       Message("assistant",
                                               Join(NL, << r.text.content[1].text >>))))
                   /\ sent2' = sent2 \o WsRecords(<< TextDelta(r.text.content[1].text),
                                                     StreamEnd >>)
                   /\ pc2' = "done"
    /\ UNCHANGED <<frame, env, pc, conn, events, sent, calls, payload, log,
                   turns, varied, free, tools, active, peer, payload2, turns2>>

SessionsNext ==
    \/ Next
    \/ OtherReceive
    \/ OtherCallClaudeEnd

SessionsSpec == Init /\ [][SessionsNext]_vars

(***************************************************************************)
(* ProteoAgent used directly: reset() called by another coroutine while    *)
(* chat is suspended.  chat_ws itself never does so, it takes the next     *)
(* message only when chat is exhausted.                                    *)
(***************************************************************************)
\* messages and self.conversation as one list: clear() empties both
AfterClearShared(msgs) == << >>

\* chat: messages is list(self.conversation), a list of its own, which
\* self.conversation.clear() leaves as it is
AfterClear(msgs) == msgs

\* ProteoAgent.reset while chat awaits _call_claude or the executor
ResetInFlight ==
    /\ pc \in {"await", "tool"}
    /\ conversation # << >>
    /\ conversation' = Reset(conversation)
    /\ messages' = AfterClear(messages)
    /\ UNCHANGED <<round, response, blk, has_tool_use, text_parts, tool_results,
                   result_str, pc, conn, events, sent, calls, payload, log,
                   executing, outcome, turns, varied, free,
                   tools, peer, conversation2, session2, active>>

ApiNext ==
    \/ Next
    \/ ResetInFlight

ApiSpec == Init /\ [][ApiNext]_vars

(***************************************************************************)
(* Properties.                                                             *)
(***************************************************************************)
Last(seq) == seq[Len(seq)]
Front(seq) == SubSeq(seq, 1, Len(seq) - 1)
Min(a, b) == IF a <= b THEN a ELSE b

\* a chat invocation is under way
InFlight == pc \in {"call", "await", "blocks", "tool", "end"}

\* the number of events of a type in a stream
CountType(evs, type) == Cardinality({k \in 1..Len(evs) : evs[k].type = type})

\* the invocation was ended by an exception of _call_claude
GatewayFailed ==
    /\ pc = "crashed"
    /\ Last(sent) \in {ErrorRecord(ConnectErrorText), ErrorRecord(StatusErrorText)}

\* How far an invocation is from its end: the rounds left, then the phase of
\* the round, then the steps left for the blocks of the response.
Phase ==
    IF pc = "call" THEN 4
    ELSE IF pc = "await" THEN 3
    ELSE IF pc \in {"blocks", "tool"} THEN 2
    ELSE IF pc = "end" THEN 1
    ELSE 0

Rank ==
    IF pc \in {"call", "await", "blocks", "tool", "end"}
    THEN << max_rounds - round,
            Phase,
            IF pc \in {"blocks", "tool"}
            THEN 2 * (Len(response.content) + 1 - blk) - (IF pc = "tool" THEN 1 ELSE 0)
            ELSE 0 >>
    ELSE <<0, 0, 0>>

\* The invocation can go on without an exception: a step of chat itself is
\* enabled, or chat awaits the completion service, which may answer with a
\* response, or it awaits a handler, and whatever the handler does
\* _execute_tool returns.
CanProceed ==
    \/ ENABLED CallClaudeStart
    \/ ENABLED TextBlockStep
    \/ ENABLED ToolUseStart
    \/ ENABLED EndRound
    \/ ENABLED Finish
    \/ pc = "await" /\ \E http \in HttpOutcomes : CallClaude(http).kind = "return"
    \/ pc = "tool" /\ \A does \in HandlerOutcomes :
                         ExecuteTool(response.content[blk].name, does).kind = "return"

LexLess(a, b) ==
    \/ a[1] < b[1]
    \/ a[1] = b[1] /\ a[2] < b[2]
    \/ a[1] = b[1] /\ a[2] = b[2] /\ a[3] < b[3]

C1_OneEndLast ==
    /\ calls <= max_rounds
    /\ InFlight => CountType(events, "StreamEnd") = 0
    /\ pc = "done" => /\ CountType(events, "StreamEnd") = 1
                      /\ Last(events) = StreamEnd

\* C1: a chat invocation makes at most 10 Model Gateway calls; while it runs
\* it has emitted no StreamEnd, and when it is done it has emitted exactly one
\* StreamEnd, as the last event.  It terminates when the completion service
\* answers and the handlers return: while it runs a step that raises nothing
\* is possible, every such step brings it nearer to its end (fewer rounds
\* left, or a later phase of the round, or fewer blocks left), and the only
\* way out of the invocation is the step that yields StreamEnd.
C1_ChatTerminates ==
    /\ [] C1_OneEndLast
    /\ [] (InFlight => CanProceed)
    /\ [][ InFlight /\ pc' # "crashed" =>
             /\ LexLess(Rank', Rank)
             /\ Rank'[1] >= 0
             /\ Rank'[3] >= 0
             /\ ~InFlight' => pc' = "done" /\ events' = Append(events, StreamEnd) ]_vars

\* C1 witness: an invocation ended after 10 Model Gateway calls
C1_Witness ==
    /\ pc = "done"
    /\ calls = max_rounds
    /\ Last(events) = StreamEnd

\* C2: when _call_claude raises, the stream of the invocation still ends
\* with exactly one StreamEnd.
C2_EndAfterGatewayFailure ==
    GatewayFailed => /\ CountType(events, "StreamEnd") = 1
                     /\ Last(events) = StreamEnd

\* the ids of the tool_use blocks of a content, in order
ToolUseIds(content) ==
    LET uses == SelectSeq(content, IsToolUse)
    IN  [k \in 1..Len(uses) |-> uses[k].id]

\* the tool_use_id's of the blocks of a user message made of tool results
ResultIds(content) == [k \in 1..Len(content) |-> content[k].tool_use_id]

\* the messages of the latest call that the invocation itself has added to
\* the history it started from
AddedMessages == SubSeq(payload, Len(conversation) + 1, Len(payload))

\* the ids of all the requests in the added messages, round after round
RECURSIVE RequestIdsOf(_)
RequestIdsOf(added) ==
    IF Len(added) < 2 THEN << >>
    ELSE ToolUseIds(added[1].content) \o RequestIdsOf(SubSeq(added, 3, Len(added)))

NoDuplicates(seq) == \A i, j \in 1..Len(seq) : seq[i] = seq[j] => i = j

C3_Paired ==
    (pc = "await" /\ calls >= 2) =>
        /\ SubSeq(payload, 1, Len(conversation)) = conversation
        /\ Len(AddedMessages) = 2 * (calls - 1)
        /\ \A j \in 1..(calls - 1) :
              LET request == AddedMessages[2 * j - 1]
                  outcomes == AddedMessages[2 * j]
              IN  /\ request.role = "assistant"
                  /\ outcomes.role = "user"
                  /\ ToolUseIds(request.content) # << >>
                  /\ \A k \in 1..Len(outcomes.content) :
                        outcomes.content[k].type = "tool_result"
                  /\ ResultIds(outcomes.content) = ToolUseIds(request.content)
        /\ NoDuplicates(RequestIdsOf(AddedMessages))
        /\ AddedMessages[Len(AddedMessages) - 1].content = response.content
        /\ AddedMessages[Len(AddedMessages)].content = tool_results

\* C3: the message list of a second or later Model Gateway call of an
\* invocation is the history the invocation started from followed by one
\* pair of messages per earlier round: the assistant message with the
\* response's blocks, and directly after it one user message whose blocks
\* are tool_result blocks carrying, in the same order, the ids of exactly the
\* tool_use blocks of that response; no id occurs twice.  The last pair is
\* the round just processed, a call carries on the messages of the call
\* before it, and a new round is entered only with an outcome collected for
\* every request.
C3_RequestsPaired ==
    /\ [] C3_Paired
    /\ [][ (pc = "call" /\ pc' = "await" /\ calls >= 1) =>
              /\ Len(payload') = Len(payload) + 2
              /\ SubSeq(payload', 1, Len(payload)) = payload ]_vars
    /\ [][ (pc = "blocks" /\ pc' = "call") =>
              Len(tool_results) = Len(ToolUseIds(response.content)) ]_vars

\* C3 witness: a third call, after a first response of two tool requests
C3_Witness ==
    /\ pc = "await"
    /\ calls = 3
    /\ Len(ToolUseIds(AddedMessages[1].content)) = 2
    /\ Len(AddedMessages[2].content) = 2

\* the invocation has just ended: its `done` record is the last one sent
JustDone == pc = "done" /\ Last(sent) = WsRecord(StreamEnd)

\* the response of the round asks for a tool and does not signal completion
AsksForMore == has_tool_use /\ response.stop_reason # "end_turn"

C4_Counts ==
    /\ calls <= max_rounds
    /\ pc = "call" => calls = round - 1
    /\ pc \in {"await", "blocks", "tool"} => calls = round
    /\ (pc = "end" /\ AsksForMore) => calls = max_rounds
    /\ (JustDone /\ Last(conversation).role = "user") =>
           /\ calls = max_rounds
           /\ Last(events) = StreamEnd

\* C4: against a model that asks for a tool in every response and never
\* signals completion, the rounds follow one another with one Model Gateway
\* call each: a round that ends so before the 10th call goes on to the next
\* call, the loop is left after such a round only when 10 calls have been
\* made, the next step is then the StreamEnd event, with no further call, and
\* the number of calls never exceeds 10.
C4_BudgetExhausted ==
    /\ [] C4_Counts
    /\ [][ (pc = "blocks" /\ blk > Len(response.content) /\ AsksForMore
             /\ calls < max_rounds) =>
              pc' = "call" /\ events' = events ]_vars
    /\ [][ (pc = "call" /\ round > 1) =>
              calls' = calls + 1 /\ calls' = round /\ calls' <= max_rounds ]_vars
    /\ [][ (pc = "end" /\ AsksForMore) =>
              /\ pc' = "done"
              /\ calls' = calls
              /\ events' = Append(events, StreamEnd) ]_vars
    /\ [][ (pc = "done" /\ calls' # calls) => turns' = turns + 1 /\ calls' = 0 ]_vars

\* C4 witness: an invocation that has ended on the round budget: 10 calls,
\* every response a tool request, and no assistant message in the history
C4_Witness ==
    /\ JustDone
    /\ calls = max_rounds
    /\ Last(conversation).role = "user"
    /\ Cardinality({k \in 1..Len(events) :
                       events[k].type = "ToolUse" /\ events[k].result # << >>}) >= max_rounds

\* chat has just finished the tool_use block before blk
AfterTool == pc = "blocks" /\ blk > 1 /\ IsToolUse(response.content[blk - 1])

\* ... and the handler of that block raised
AfterRaise == AfterTool /\ outcome.kind = "raise"

\* a handler has raised earlier in the invocation
HandlerRaised ==
    \E k \in 1..Len(events) :
        /\ events[k].type = "ToolUse"
        /\ StartsWith(events[k].result, ErrExecPrefix)

C5_ErrorResult ==
    AfterRaise =>
        LET block == response.content[blk - 1]
            prefix == Cat(Cat(ErrExecPrefix, block.name), ColonSpace)
        IN  /\ block.name \in RegisteredNames
            /\ StartsWith(result_str, prefix)
            /\ result_str = Cat(prefix, outcome.text)
            /\ Last(events).type = "ToolUse"
            /\ Last(events).tool_name = block.name
            /\ Last(events).tool_input = block.input
            /\ StartsWith(Last(events).result, prefix)
            /\ Last(tool_results).tool_use_id = block.id
            /\ StartsWith(Last(tool_results).content, prefix)

\* C5: when the handler of a registered tool raises, _execute_tool returns
\* the text "Error executing <name>: <message>"; the round goes on: the
\* populated ToolUse event and the tool_result of the block carry that text
\* (cut to their caps) and chat moves to the next block; no step that awaits
\* a handler ends the invocation with an exception, and an invocation in
\* which a handler has raised still proceeds towards its StreamEnd.
C5_HandlerErrorContained ==
    /\ [] C5_ErrorResult
    /\ [][ pc = "tool" => pc' = "blocks" /\ blk' = blk + 1 /\ conn' = "open" ]_vars
    /\ [] ((HandlerRaised /\ InFlight) => CanProceed)
    /\ [][ (HandlerRaised /\ InFlight /\ pc' # "crashed") =>
              /\ LexLess(Rank', Rank)
              /\ ~InFlight' => Last(events') = StreamEnd ]_vars

\* C5 witness: an invocation has ended with StreamEnd after a handler raised
C5_Witness ==
    /\ JustDone
    /\ HandlerRaised
    /\ Last(events) = StreamEnd

\* chat has just finished a tool_use block that names no registered tool
AfterUnknown == AfterTool /\ response.content[blk - 1].name \notin RegisteredNames

UnknownToolText == Lit(<<"U", "n", "k", "n", "o", "w", "n", " ", "t", "o", "o", "l">>)

\* the result is paired with the request: streamed for it and fed back as
\* its outcome
PairedWithRequest ==
    LET block == response.content[blk - 1]
    IN  /\ Last(events) = ToolUse(block.name, block.input, result_str)
        /\ Last(tool_results) = ToolResultBlock(block.id, result_str)

\* C6 as stated: the result of an unregistered tool begins with
\* "Unknown tool" and is paired with the request.
C6_BeginsWithUnknownTool ==
    AfterUnknown =>
        /\ StartsWith(result_str, UnknownToolText)
        /\ PairedWithRequest

\* the round is over and the invocation goes on to the next call or to the
\* end of the loop
RoundLeft == pc' \in {"call", "end"} /\ conn' = "open"

\* C6, amended: when the model asks for a tool that is not in the registry,
\* _execute_tool returns the text "Error: Unknown tool '<name>'" without
\* calling a handler; the result is paired with the request (the populated
\* ToolUse event and the tool_result of the block's id carry it), the step
\* raises nothing, and the round ends in the next Model Gateway call or in
\* the end of the loop.
C6_UnknownToolReported ==
    /\ [] (AfterUnknown =>
             /\ result_str = Cat(Cat(ErrUnknownPrefix, response.content[blk - 1].name), Quote)
             /\ outcome = NotCalled
             /\ PairedWithRequest)
    /\ [][ (pc = "tool" /\ response.content[blk].name \notin RegisteredNames) =>
              pc' = "blocks" /\ blk' = blk + 1 /\ conn' = "open" ]_vars
    /\ [][ (pc = "blocks" /\ blk > Len(response.content)) => RoundLeft ]_vars

\* C6 witness: the result of an unregistered tool has been fed back in a
\* later Model Gateway call
C6_Witness ==
    /\ pc = "await"
    /\ calls = 2
    /\ \E k \in 1..Len(events) :
          /\ events[k].type = "ToolUse"
          /\ events[k].tool_name = LookupName
          /\ StartsWith(events[k].result, ErrUnknownPrefix)
    /\ \E k \in 1..Len(Last(payload).content) :
          StartsWith(Last(payload).content[k].content, ErrUnknownPrefix)

\* p is the prefix of s of length n: character by character
IsPrefixOfLength(p, s, n) ==
    LET pchars == Chars(p)
        schars == Chars(s)
    IN  /\ Len(pchars) = n
        /\ n <= Len(schars)
        /\ \A i \in 1..n : pchars[i] = schars[i]

C7_Caps ==
    AfterTool =>
        LET streamed == Last(events).result
            fed == Last(tool_results).content
        IN  /\ Last(events).type = "ToolUse"
            /\ IsPrefixOfLength(streamed, result_str, Min(StrLen(result_str), 2000))
            /\ IsPrefixOfLength(fed, result_str, Min(StrLen(result_str), 4000))
            /\ StrLen(streamed) <= 2000
            /\ StrLen(fed) <= 4000
            /\ IsPrefixOfLength(streamed, fed, StrLen(streamed))

\* C7: after a tool block, the result of the populated ToolUse event is the
\* prefix of the raw result of length min(len, 2000) and the content of the
\* block's tool_result is the prefix of the raw result of length
\* min(len, 4000); neither exceeds its cap and the streamed text is a prefix
\* of the re-injected one.  The step that ends a tool block computes both
\* from the same raw result.
C7_TruncationLaws ==
    /\ [] C7_Caps
    /\ [][ pc = "tool" =>
              /\ Last(events').result = Take(result_str', StreamCap)
              /\ Last(tool_results').content = Take(result_str', ModelCap) ]_vars

\* C7 witness: a raw result longer than both caps has been cut to 2000 and
\* to 4000 characters
C7_Witness ==
    /\ AfterTool
    /\ StrLen(result_str) > 4000
    /\ StrLen(Last(events).result) = 2000
    /\ StrLen(Last(tool_results).content) = 4000

\* What the stream must hold for the first k blocks of a content, leaving
\* the artifact events aside: a text block gives its text, a tool_use block
\* gives its name and input twice, for the announcement and for the result.
RECURSIVE BlockTrail(_, _)
BlockTrail(content, k) ==
    IF k = 0 THEN << >>
    ELSE BlockTrail(content, k - 1) \o
         (IF IsToolUse(content[k])
          THEN << <<"ToolUse", content[k].name, content[k].input>>,
                  <<"ToolUse", content[k].name, content[k].input>> >>
          ELSE << <<"TextDelta", content[k].text>> >>)

\* the same for the responses of the rounds before the current one, which
\* chat keeps in messages
RECURSIVE EarlierTrail(_)
EarlierTrail(j) ==
    IF j = 0 THEN << >>
    ELSE LET content == messages[Len(conversation) + 2 * j - 1].content
         IN  EarlierTrail(j - 1) \o BlockTrail(content, Len(content))

IsArtifact(e) == e.type \in {"ImageResult", "AudioResult"}
IsNoArtifact(e) == ~IsArtifact(e)
IsToolUseEvent(e) == e.type = "ToolUse"

\* the stream without its artifact events, each event reduced as above
EventTrail ==
    LET main == SelectSeq(events, IsNoArtifact)
    IN  [k \in 1..Len(main) |->
            IF main[k].type = "TextDelta"
            THEN <<"TextDelta", main[k].text>>
            ELSE <<"ToolUse", main[k].tool_name, main[k].tool_input>>]

C8_Order ==
    /\ Cardinality(executing) <= 1
    /\ pc # "tool" => executing = { }
    /\ pc = "tool" =>
          /\ executing = {response.content[blk].id}
          /\ events # << >>
          /\ Last(events) = ToolUse(response.content[blk].name,
                                    response.content[blk].input, << >>)
    /\ pc \in {"blocks", "tool"} =>
          /\ EventTrail =
                EarlierTrail(round - 1) \o BlockTrail(response.content, blk - 1)
                \o (IF pc = "tool"
                    THEN << <<"ToolUse", response.content[blk].name,
                              response.content[blk].input>> >>
                    ELSE << >>)
          /\ LET uses == SelectSeq(events, IsToolUseEvent)
             IN  \A j \in 1..Len(uses) : (uses[j].result = << >>) <=> (j % 2 = 1)

\* C8: the events of an invocation follow the blocks of its responses, in
\* order: a TextDelta per text block, and per tool_use block a ToolUse event
\* with empty result and then a ToolUse event with the same name and input
\* and the result cut to 2000 characters, artifact events only in between.
\* The empty event is yielded by the step that starts the handler, the
\* populated one by the step that takes the handler's result; while a
\* handler runs the last event is its block's empty event, no handler runs
\* at any other point of chat, and at most one runs at a time, so the
\* ToolUse events alternate empty, populated over the whole stream.
C8_EventOrder ==
    /\ [] C8_Order
    /\ [][ (pc = "blocks" /\ pc' = "tool") =>
              /\ executing = { }
              /\ events' = Append(events, ToolUse(response.content[blk].name,
                                                  response.content[blk].input, << >>)) ]_vars
    /\ [][ (pc = "tool" /\ pc' = "blocks") =>
              /\ executing' = { }
              /\ Len(events') > Len(events)
              /\ SubSeq(events', 1, Len(events)) = events
              /\ \A k \in (Len(events) + 1)..(Len(events') - 1) : IsArtifact(events'[k])
              /\ Last(events') = ToolUse(response.content[blk].name,
                                         response.content[blk].input,
                                         Take(result_str', 2000))
              /\ blk' = blk + 1 ]_vars
    /\ [][ (pc = "blocks" /\ pc' = "blocks" /\ blk' # blk) =>
              /\ blk' = blk + 1
              /\ events' = Append(events, TextDelta(response.content[blk].text)) ]_vars

\* C8 witness: two tool requests in one response, the second handler
\* running after the first one's populated event has been streamed
C8_Witness ==
    /\ pc = "tool"
    /\ blk = 2
    /\ round = 1
    /\ IsToolUse(response.content[1])
    /\ Len(events) >= 3
    /\ events[1] = ToolUse(response.content[1].name, response.content[1].input, << >>)
    /\ events[Len(events) - 1].type = "ToolUse"
    /\ events[Len(events) - 1].result # << >>
    /\ Last(events).result = << >>

\* the texts of the TextDelta events of a stream, in order
TextsOf(evs) ==
    LET deltas == SelectSeq(evs, LAMBDA e : e.type = "TextDelta")
    IN  [k \in 1..Len(deltas) |-> deltas[k].text]

\* every block of the response is a text block
TextOnly(content) == \A k \in 1..Len(content) : content[k].type = "text"

C9_AfterTextReply ==
    (JustDone /\ calls = 1 /\ CountType(events, "ToolUse") = 0) =>
        /\ Len(conversation) >= 2
        /\ payload = Front(conversation)
        /\ Last(payload).role = "user"
        /\ Last(payload).content \in UserMessages
        /\ \A k \in 1..(Len(events) - 1) : events[k].type = "TextDelta"
        /\ Len(events) >= 2
        /\ Last(events) = StreamEnd
        /\ Last(conversation) = Message("assistant", Join(NL, TextsOf(events)))

\* C9: a user message is appended to the history and the first Model
\* Gateway call carries the history so extended; when the first response
\* has text blocks only, a TextDelta is streamed per block, the round ends
\* the loop with one assistant message of the joined texts appended to the
\* history, and StreamEnd follows with no second call: afterwards the
\* history is the message list of that one call followed by the assistant
\* message, and the stream was the TextDeltas and then StreamEnd.
C9_TextOnlyTurn ==
    /\ [] C9_AfterTextReply
    /\ [][ (pc \in {"idle", "done"} /\ pc' = "call") =>
              /\ \E user_msg \in UserMessages :
                    conversation' = Append(conversation, Message("user", user_msg))
              /\ messages' = conversation' ]_vars
    /\ [][ (pc = "call" /\ round = 1) =>
              calls' = 1 /\ payload' = conversation /\ conversation' = conversation ]_vars
    /\ [][ (pc = "blocks" /\ round = 1 /\ blk > Len(response.content)
             /\ TextOnly(response.content)) =>
              /\ pc' = "end"
              /\ calls' = 1
              /\ Len(events) = Len(response.content)
              /\ \A k \in 1..Len(events) : events[k] = TextDelta(response.content[k].text)
              /\ conversation' = Append(conversation,
                                        Message("assistant", Join(NL, TextsOf(events)))) ]_vars

\* C9 witness: "hello" answered with "hello back" a second time: the call
\* carried the first exchange and the new message
C9_Witness ==
    /\ JustDone
    /\ calls = 1
    /\ events = << TextDelta(HelloBack), StreamEnd >>
    /\ payload = << Message("user", Hello), Message("assistant", HelloBack),
                    Message("user", Hello) >>
    /\ conversation = Append(payload, Message("assistant", HelloBack))

\* the step is a reset: a message was taken and no chat was started
ResetStep == turns' = turns + 1 /\ pc' # "call"

C10_AfterReset ==
    /\ (sent # << >> /\ Last(sent).type = "system") =>
          /\ conversation = << >>
          /\ Last(sent) = [type |-> "system", text |-> ConversationReset]
    /\ (Len(sent) >= 2 /\ Last(sent).type = "system"
         /\ sent[Len(sent) - 1].type = "system") =>
          Last(sent) = sent[Len(sent) - 1]

\* C10: a reset leaves the history empty, whatever it was, and sends the
\* record {type: system, text: "Conversation reset."}; it changes nothing
\* else.  A second reset right after it does the same: the history is
\* empty again and the same record is sent again.
C10_ResetIdempotent ==
    /\ [] C10_AfterReset
    /\ [][ ResetStep =>
              /\ conversation' = << >>
              /\ sent' = Append(sent, [type |-> "system", text |-> ConversationReset])
              /\ UNCHANGED <<frame, env, pc, conn, events, calls, payload, log>> ]_vars

\* C10 witness: an exchange, then two resets in a row
C10_Witness ==
    /\ Len(sent) >= 3
    /\ sent[Len(sent) - 2] = WsRecord(StreamEnd)
    /\ sent[Len(sent) - 1] = SystemRecord
    /\ Last(sent) = SystemRecord
    /\ conversation = << >>

\* the texts that read "/reset" once trimmed and lower-cased, among those a
\* client sends
ResetSpellings ==
    {m \in UserMessages : \E lead, trail \in {<< >>, Lit(<<" ">>), Lit(<<"\n">>)} :
        \E word \in {ResetCommand, Lit(<<"/", "R", "e", "s", "e", "t">>)} :
            m = Cat(lead, Cat(word, trail))}

C11_NotInHistory ==
    \A k \in 1..Len(conversation) :
        conversation[k].role = "user" => conversation[k].content \notin ResetSpellings

\* C11: a message that reads "/reset" once trimmed and lower-cased never
\* starts a chat and is never appended to the history; every non-empty
\* message either starts a chat, and then it is no such message, or is taken
\* as the command: the history is cleared, no Model Gateway call is made and
\* no handler started, and exactly one record, of type system, is sent and
\* no event is yielded.
C11_ResetSentinel ==
    /\ [] C11_NotInHistory
    /\ [][ turns' = turns + 1 =>
              \/ /\ pc' = "call"
                 /\ Last(conversation').role = "user"
                 /\ Last(conversation').content \in UserMessages \ ResetSpellings
              \/ /\ pc' = pc
                 /\ conversation' = << >>
                 /\ calls' = calls
                 /\ payload' = payload
                 /\ executing' = executing
                 /\ events' = events
                 /\ Len(sent') = Len(sent) + 1
                 /\ SubSeq(sent', 1, Len(sent)) = sent
                 /\ Last(sent').type = "system" ]_vars

\* C11 witness: the command was received after an exchange: no call, the
\* history is empty and the one record sent after `done` is the system one
C11_Witness ==
    /\ ResetSpelled \in ResetSpellings
    /\ JustDone = FALSE
    /\ pc = "done"
    /\ calls = 1
    /\ conversation = << >>
    /\ Len(sent) >= 2
    /\ sent[Len(sent) - 1] = WsRecord(StreamEnd)
    /\ Last(sent).type = "system"

\* the index in messages of the user message of the invocation in flight
UserMessageAt == Len(messages) - 2 * (round - 1)

\* the trail of the responses of the earlier rounds, found from the end of
\* messages
RECURSIVE RoundsTrail(_)
RoundsTrail(j) ==
    IF j = 0 THEN << >>
    ELSE LET content == messages[UserMessageAt + 2 * j - 1].content
         IN  RoundsTrail(j - 1) \o BlockTrail(content, Len(content))

C12_RoundIntact ==
    /\ pc \in {"call", "await", "blocks", "tool"} =>
          /\ UserMessageAt >= 1
          /\ messages[UserMessageAt].role = "user"
          /\ messages[UserMessageAt].content \in UserMessages
    /\ pc = "await" => payload = messages
    /\ pc \in {"blocks", "tool"} =>
          EventTrail =
              RoundsTrail(round - 1) \o BlockTrail(response.content, blk - 1)
              \o (IF pc = "tool"
                  THEN << <<"ToolUse", response.content[blk].name,
                            response.content[blk].input>> >>
                  ELSE << >>)

\* the step is a reset of the agent while its chat is suspended
ResetInFlightStep == InFlight /\ pc' = pc /\ conversation' # conversation

\* C12: a reset while chat is suspended at the Model Gateway call or at a
\* tool execution empties the history and changes nothing of the
\* invocation: its messages, its locals, its events and its calls stay as
\* they are.  What the invocation does afterwards does not depend on the
\* history either: the next call carries the messages the invocation has
\* built (they only grow, and still hold its user message), and the events
\* are those of the blocks of the responses, with or without a reset.
C12_ResetLeavesRound ==
    /\ [] C12_RoundIntact
    /\ [][ ResetInFlightStep =>
              /\ conversation' = << >>
              /\ UNCHANGED <<frame, env, events, sent, calls, payload, log>> ]_vars
    /\ [][ (pc = "call" /\ pc' = "await") => payload' = messages ]_vars
    /\ [][ (pc \in {"call", "await", "blocks", "tool"} /\ InFlight') =>
              /\ Len(messages') >= Len(messages)
              /\ SubSeq(messages', 1, Len(messages)) = messages
              /\ Len(events') >= Len(events)
              /\ SubSeq(events', 1, Len(events)) = events ]_vars

\* C12 witness: the history was discarded during the second turn, and the
\* second call of that turn still carries the first exchange, the user
\* message and the round
C12_Witness ==
    /\ pc = "await"
    /\ calls = 2
    /\ conversation = << >>
    /\ Len(payload) = 5
    /\ payload[3].role = "user"
    /\ Len(events) >= 2

\* the latest response holds a tool request
RequestsTool == \E k \in 1..Len(response.content) : IsToolUse(response.content[k])

\* a further Model Gateway call is due after the latest response
FurtherCallDue ==
    /\ RequestsTool
    /\ response.stop_reason # "end_turn"
    /\ calls < 10

C13_DoneConditions ==
    /\ pc = "end" =>
          \/ ~RequestsTool
          \/ response.stop_reason = "end_turn"
          \/ calls = 10
    /\ (pc = "call" /\ round > 1) =>
          /\ RequestsTool
          /\ response.stop_reason # "end_turn"
          /\ calls < 10

\* C13: when the blocks of a response are done, the invocation goes to a
\* further Model Gateway call if and only if the response held a tool
\* request, its stop reason is not end_turn and fewer than 10 calls have been
\* made; otherwise it leaves the loop, and the next step is StreamEnd.  So
\* the loop is left exactly when the response has no tool request, or its
\* stop reason is end_turn, or 10 calls have been made, and a call after the
\* first is made only from a round for which none of the three holds.
C13_DoneExactlyWhen ==
    /\ [] C13_DoneConditions
    /\ [][ (pc = "blocks" /\ blk > Len(response.content)) =>
              /\ has_tool_use = RequestsTool
              /\ (pc' = "call") = FurtherCallDue
              /\ (pc' = "end") = ~FurtherCallDue
              /\ calls' = calls /\ response' = response ]_vars
    /\ [][ pc = "end" => pc' = "done" /\ Last(events') = StreamEnd /\ calls' = calls ]_vars
    /\ [][ (pc = "call" /\ round > 1) => FurtherCallDue /\ calls' = calls + 1 ]_vars

\* C13 witness: the loop is left on a response that requests a tool and
\* says end_turn, before the budget is used up
C13_Witness ==
    /\ pc = "end"
    /\ RequestsTool
    /\ response.stop_reason = "end_turn"
    /\ calls = 1

\* C14: when an invocation has ended naturally, with an assistant message
\* appended to the history, that message holds the texts of all the
\* TextDelta events of the invocation, across its rounds, in the order of
\* emission.
C14_ReplyAccumulated ==
    (JustDone /\ Last(conversation).role = "assistant") =>
        Last(conversation).content = Join(NL, TextsOf(events))

\* C15: at a round boundary after a response with tool requests, the
\* session history holds what the round added: the assistant message with
\* the raw content and, after it, the user message with the tool outcomes,
\* as the working message list does.
C15_RoundsInHistory ==
    (pc = "call" /\ round > 1) =>
        /\ Len(conversation) = Len(messages)
        /\ conversation[Len(conversation) - 1].role = "assistant"
        /\ conversation[Len(conversation) - 1].content = response.content
        /\ Last(conversation).role = "user"
        /\ Last(conversation).content = tool_results

\* a message of the stored history holds text: a role and a str
IsTextMessage(m) ==
    /\ m.role \in {"user", "assistant"}
    /\ \A k \in 1..Len(m.content) : Len(m.content[k]) = 2 /\ m.content[k][2] >= 1

\* every populated ToolUse event of the round's requests has been streamed
\* and its outcome collected
RoundResolved ==
    /\ ResultIds(tool_results) = ToolUseIds(response.content)
    /\ \A k \in 1..Len(tool_results) :
          \E e \in 1..Len(events) :
              /\ events[e].type = "ToolUse"
              /\ events[e].result = Take(tool_results[k].content, 2000)
              /\ events[e].result # << >>

C16_NoUnmatchedRequest ==
    /\ \A k \in 1..Len(conversation) : IsTextMessage(conversation[k])
    /\ (pc = "call" /\ round > 1) =>
          /\ Len(messages) = Len(conversation) + 2 * (round - 1)
          /\ \A j \in 1..(round - 1) :
                LET request == messages[Len(conversation) + 2 * j - 1]
                    outcomes == messages[Len(conversation) + 2 * j]
                IN  /\ request.role = "assistant"
                    /\ outcomes.role = "user"
                    /\ ToolUseIds(request.content) # << >>
                    /\ ResultIds(outcomes.content) = ToolUseIds(request.content)
    /\ (pc = "blocks" /\ blk > Len(response.content)) => RoundResolved
    /\ pc = "crashed" => /\ sent # << >>
                         /\ Last(sent).type = "error"
                         /\ conn = "closed"

CountRecords(recs, type) == Cardinality({k \in 1..Len(recs) : recs[k].type = type})

C17_HistoryAtAbort ==
    pc = "crashed" =>
        /\ Len(conversation) >= 1
        /\ Last(conversation).role = "user"
        /\ Last(conversation).content \in UserMessages
        /\ \A k \in 1..Len(conversation) : IsTextMessage(conversation[k])
        /\ Len(payload) = Len(conversation) + 2 * (calls - 1)
        /\ SubSeq(payload, 1, Len(conversation)) = conversation

C19_Non200Raised ==
    /\ \A k \in 1..Len(log) : log[k].status # 200
    /\ log # << >> => pc = "crashed"

ImagesIn(r) ==
    IF r \in {RBoth, RImage} THEN << JsonVal("str", ImagePayload, << >>) >> ELSE << >>
AudiosIn(r) ==
    IF r \in {RBoth, RAudio} THEN << JsonVal("str", AudioPayload, << >>) >> ELSE << >>

\* the events of a tool_use block whose handler gave r
EventsOfCall(block, r) ==
    << ToolUse(block.name, block.input, << >>) >>
    \o [k \in 1..Len(ImagesIn(r)) |->
           ImageResult(ImagesIn(r)[k], Cat(block.name, ResultSuffix))]
    \o [k \in 1..Len(AudiosIn(r)) |-> AudioResult(AudiosIn(r)[k], VoiceNarration)]
    \o << ToolUse(block.name, block.input, Take(r, 2000)) >>

C21_AfterCall ==
    AfterTool =>
        LET block == response.content[blk - 1]
            expected == EventsOfCall(block, result_str)
            n == Len(events)
        IN  /\ conn = "open"
            /\ n >= Len(expected)
            /\ SubSeq(events, n - Len(expected) + 1, n) = expected
            /\ SubSeq(sent, n - Len(expected) + 1, n) = WsRecords(expected)
            /\ tool_results # << >>
            /\ Last(tool_results) = ToolResultBlock(block.id, Take(result_str, 4000))

\* C21: once the handler of a tool_use block has returned, the events of
\* the block are the empty ToolUse event, an image event with the payload
\* if the result is a JSON object with the key image_base64, an audio event
\* with the payload if it has the key audio_base64, and the populated
\* ToolUse event; for a result that is not JSON, or a JSON number, array or
\* string, or an object with neither key, they are the two ToolUse events
\* alone.  In every case the outcome is collected for the model and no
\* exception leaves the chat.
C21_ArtifactsExtracted ==
    /\ [] C21_AfterCall
    /\ [][ pc = "tool" => (pc' = "blocks" /\ conn' = "open" /\ blk' = blk + 1) ]_vars

\* C21 witness: the first handler gave an object with an image, the second
\* an array that holds the key's name
C21_Witness ==
    /\ AfterTool
    /\ blk = 3
    /\ result_str = RArray
    /\ CountType(events, "ImageResult") = 1
    /\ CountType(events, "ToolUse") = 4

C22_Manifest ==
    tools # << >> =>
        /\ Len(tools) = Len(TOOL_REGISTRY)
        /\ \A i \in 1..Len(tools) :
              /\ DOMAIN tools[i] = {"name", "description", "input_schema"}
              /\ tools[i].name = TOOL_REGISTRY[i]
              /\ tools[i].description = ToolSpec(TOOL_REGISTRY[i]).description
              /\ tools[i].input_schema = ToolSpec(TOOL_REGISTRY[i]).input_schema
        /\ tools[1].name = SnapshotName
        /\ tools[2].name = NarrateName
        /\ tools[1].description = "Capture a screenshot of the current ChimeraX view."

\* C22: the manifest sent with a call has one entry per registered tool,
\* with exactly the keys name, description and input_schema and the values
\* registered, in the order of registration (snapshot before
\* narrate_analysis); and once a manifest has been computed, every later
\* one is the same, whatever chats, tool executions and resets lie between.
C22_ManifestStable ==
    /\ [] C22_Manifest
    /\ [][ tools # << >> => tools' = tools ]_vars
    /\ [][ (pc = "call" /\ pc' = "await") => tools' # << >> ]_vars

\* C22 witness: the manifest computed for a chat that follows a reset and,
\* before it, a chat in which a handler was run
C22_Witness ==
    /\ pc = "await"
    /\ tools # << >>
    /\ turns = 3
    /\ varied = 1
    /\ conversation = << Message("user", Hello) >>

C24_SingleFlow ==
    /\ active \in {0, 1}
    /\ active = 1 <=> InFlight

\* C24: at most one chat invocation of the session has begun and not ended;
\* a message, be it a chat message or the reset command, is taken up only
\* when none is in progress; and the history is changed only by the taking
\* up of a message or by the one invocation in progress, at the end of its
\* last round.
C24_OneRoundAtATime ==
    /\ [] C24_SingleFlow
    /\ [][ turns' # turns => (active = 0 /\ active' \in {0, 1}) ]_vars
    /\ [][ conversation' # conversation =>
              \/ active = 0 /\ turns' = turns + 1
              \/ /\ active = 1 /\ active' = 1 /\ turns' = turns
                 /\ pc = "blocks" /\ pc' = "end" ]_vars

\* C24 witness: the second invocation of the session is in progress, its
\* handler running
C24_Witness ==
    /\ active = 1
    /\ pc = "tool"
    /\ turns = 2
    /\ Len(conversation) = 3

\* the handler of the block at hand is running and the client is gone
HandlerOrphaned == pc = "tool" /\ peer = "gone"

\* C25: when the client has gone while a handler runs, the one step the
\* running chat takes is the handler's completion (the call is over, what
\* the handler did is on record, its result has come back), with which the
\* invocation is abandoned: no record is sent, no outcome collected, no
\* Model Gateway call made and the history left as it is, then and ever
\* after.
C25_ResultDiscarded ==
    /\ [] (pc = "abandoned" => (conn = "closed" /\ peer = "gone" /\ active = 0))
    /\ [][ HandlerOrphaned =>
              /\ executing' = { }
              /\ response.content[blk].name \in RegisteredNames =>
                    (outcome' \in HandlerOutcomes /\ outcome'.kind = "return"
                        => result_str' = outcome'.text)
              /\ result_str' # << >>
              /\ pc' = "abandoned"
              /\ sent' = sent
              /\ tool_results' = tool_results
              /\ calls' = calls
              /\ conversation' = conversation ]_vars
    /\ [][ pc = "abandoned" => FALSE ]_vars

\* C25 witness: the client went while the handler ran; the handler has
\* returned an object with an image, which was yielded and not sent: the
\* last record sent is the one of the empty ToolUse event
C25_Witness ==
    /\ pc = "abandoned"
    /\ result_str = RBoth
    /\ outcome = Returns(RBoth)
    /\ Last(events).type = "ImageResult"
    /\ Last(sent).type = "tool"
    /\ Last(sent).result = << >>
    /\ Last(conversation).role = "user"

\* the texts of the second connection: what its client sends and what its
\* model answers
OtherTexts == {Other, OtherBack}

C23_OwnMessages ==
    /\ \A k \in 1..Len(conversation) : conversation[k].content \notin OtherTexts
    /\ calls >= 1 =>
          \A k \in 1..(Len(payload) - 2 * (calls - 1)) :
              payload[k].content \notin OtherTexts
    /\ \A k \in 1..Len(conversation2) : conversation2[k].content \in OtherTexts
    /\ \A k \in 1..Len(payload2) : payload2[k].content \in OtherTexts

\* C23: the history of a connection's agent and the messages of its calls
\* hold texts of that connection only; a step of one connection (a message
\* taken up, a reset among them, a call answered or failed) leaves the
\* history, the calls, the events and the records of the other as they are.
C23_SessionsIsolated ==
    /\ [] C23_OwnMessages
    /\ [][ <<pc2, turns2>>' # <<pc2, turns2>> =>
              UNCHANGED <<conversation, messages, payload, events, sent, pc, conn>> ]_vars
    /\ [][ <<pc, turns, blk, round>>' # <<pc, turns, blk, round>> =>
              UNCHANGED <<conversation2, payload2, sent2, pc2>> ]_vars

\* C23 witness: the second connection has reset and then failed in a call
\* while the first, in its second turn, waits for a handler
C23_Witness ==
    /\ pc = "tool"
    /\ Len(conversation) = 3
    /\ pc2 = "crashed"
    /\ turns2 = 2
    /\ conversation2 = << Message("user", Other) >>

\* C26: when an invocation has ended with the End event, the history ends
\* with its user message followed by one assistant message, and user and
\* assistant messages alternate all through it.
C26_UserThenAssistant ==
    JustDone =>
        /\ Len(conversation) >= 2
        /\ Last(conversation).role = "assistant"
        /\ conversation[Len(conversation) - 1].role = "user"
        /\ \A k \in 1..(Len(conversation) - 1) :
              conversation[k].role # conversation[k + 1].role

\* C27: the messages of every Model Gateway call begin with a user message
\* and no two neighbours among them have the same role.
C27_RolesAlternate ==
    payload # << >> =>
        /\ payload[1].role = "user"
        /\ \A k \in 1..(Len(payload) - 1) : payload[k].role # payload[k + 1].role

\* the response at hand requests tools and says end_turn
EndTurnWithTools == RequestsTool /\ response.stop_reason = "end_turn"

\* the texts of the text blocks of a content
TextBlocksOf(content) ==
    LET texts == SelectSeq(content, LAMBDA b : b.type = "text")
    IN  [k \in 1..Len(texts) |-> texts[k].text]

C28_ToolsRunTurnEnds ==
    (pc = "end" /\ EndTurnWithTools) =>
        LET trail == BlockTrail(response.content, Len(response.content))
        IN  /\ Len(EventTrail) >= Len(trail)
            /\ SubSeq(EventTrail, Len(EventTrail) - Len(trail) + 1, Len(EventTrail)) = trail
            /\ RoundResolved
            /\ executing = { }
            /\ Last(messages) = Message("assistant", response.content)
            /\ Last(conversation) =
                   Message("assistant", Join(NL, TextBlocksOf(response.content)))
            /\ calls = round
            /\ payload = SubSeq(messages, 1, Len(messages) - 1)

\* C28: when the blocks of a response that requests tools and says end_turn
\* are done, every requested tool has been run and its two ToolUse events
\* yielded, in the order of the blocks; the loop is then left: the raw
\* content is the last message added to the working list (no message of
\* outcomes follows it), the assistant message stored in the history is the
\* join of the response's text blocks, and the next step is StreamEnd,
\* without a further Model Gateway call.
C28_EndTurnWithTools ==
    /\ [] C28_ToolsRunTurnEnds
    /\ [][ (pc = "blocks" /\ blk > Len(response.content) /\ EndTurnWithTools) =>
              /\ pc' = "end"
              /\ messages' = Append(messages, Message("assistant", response.content))
              /\ conversation' =
                    Append(conversation,
                           Message("assistant", Join(NL, TextBlocksOf(response.content))))
              /\ calls' = calls ]_vars
    /\ [][ (pc = "end" /\ EndTurnWithTools) =>
              /\ pc' = "done"
              /\ calls' = calls
              /\ conversation' = conversation
              /\ events' = Append(events, StreamEnd) ]_vars

\* C28 witness: the loop was left on a response with a text block and a
\* tool request that says end_turn, the handler having returned an object
\* with artifacts
C28_Witness ==
    /\ pc = "end"
    /\ EndTurnWithTools
    /\ Len(response.content) = 2
    /\ response.content[1].type = "text"
    /\ result_str = RBoth
    /\ calls = 1

IsEmptyToolUse(e) == e.type = "ToolUse" /\ e.result = << >>
IsPopulatedToolUse(e) == e.type = "ToolUse" /\ e.result # << >>

C29_ArtifactPlace ==
    \A i \in 1..Len(events) :
        /\ events[i].type = "ImageResult" =>
              /\ i > 1 /\ i < Len(events)
              /\ IsEmptyToolUse(events[i - 1])
              /\ events[i].caption = Cat(events[i - 1].tool_name, ResultSuffix)
              /\ \/ events[i + 1].type = "AudioResult"
                 \/ /\ IsPopulatedToolUse(events[i + 1])
                    /\ events[i + 1].tool_name = events[i - 1].tool_name
        /\ events[i].type = "AudioResult" =>
              /\ i > 1 /\ i < Len(events)
              /\ IsEmptyToolUse(events[i - 1]) \/ events[i - 1].type = "ImageResult"
              /\ IsPopulatedToolUse(events[i + 1])

\* C29: in the stream, an image event comes right after the empty ToolUse
\* event of its block and is followed by the audio event of the same result
\* or by the populated ToolUse event of the block; an audio event comes
\* right after that empty event or the image event and right before the
\* populated event.  While the handler runs nothing is yielded, and the
\* artifact events appear with the step in which the handler's call ends.
C29_ArtifactOrder ==
    /\ [] C29_ArtifactPlace
    /\ [][ (pc = "tool" /\ pc' = "tool") => events' = events ]_vars
    /\ [][ CountType(events', "ImageResult") + CountType(events', "AudioResult")
           > CountType(events, "ImageResult") + CountType(events, "AudioResult") =>
              /\ pc = "tool"
              /\ executing # { }
              /\ executing' = { }
              /\ outcome'.kind = "return"
              /\ result_str' = outcome'.text ]_vars

\* C29 witness: a result with both artifacts has been streamed: empty
\* ToolUse, image, audio, populated ToolUse
C29_Witness ==
    /\ pc = "blocks"
    /\ Len(events) >= 4
    /\ IsEmptyToolUse(events[Len(events) - 3])
    /\ events[Len(events) - 2].type = "ImageResult"
    /\ events[Len(events) - 1].type = "AudioResult"
    /\ IsPopulatedToolUse(Last(events))

\* C30: once an invocation has been aborted and the error record sent, the
\* connection is still in its receive loop, so that a further message can
\* be taken up.
C30_UsableAfterError ==
    (pc = "crashed" /\ sent # << >> /\ Last(sent).type = "error") => conn = "open"

=============================================================================
